---- MODULE Spec2Model ----
(***************************************************************************)
(* Incremental synchronisation engine of the job scrapers:                 *)
(*   scripts/shared/database.py     the job_listings / scrape_runs store   *)
(*   scripts/shared/batch_writer.py the buffered BatchWriter               *)
(*   scripts/shared/incremental.py  the 5-phase run_incremental_scrape     *)
(*   scripts/run_scraper.py         run_database_mode (one connection per  *)
(*                                  invocation, incremental or full mode)  *)
(*                                                                         *)
(* The store is PostgreSQL through psycopg2 with autocommit off: every     *)
(* database function commits at its end, and a statement the server        *)
(* rejects leaves the connection in a failed transaction in which every    *)
(* later statement raises until a rollback (the code never rolls back).    *)
(***************************************************************************)
EXTENDS Integers, Sequences, FiniteSets, TLC

\* ---------------------------------------------------------------- bounds
MaxId == 2          \* job ids are 1..MaxId
MaxCards == 2       \* longest snapshot (list of job cards) a scrape returns
MaxRuns == 2        \* invocations of run_database_mode in one behaviour
BatchSize == 2      \* batch_size of the BatchWriter (50 in the program)
MaxFullRuns == 1    \* full-mode invocations are among the first MaxFullRuns
MaxDiffId == 4      \* job ids of the diff-only specification are 1..MaxDiffId
MaxEnrichId == 3    \* job ids of the phase-3 specification are 1..MaxEnrichId
MaxLifecycleId == 3 \* job ids of the phase-2-to-4 specification are 1..MaxLifecycleId
MaxStreamCards == 3 \* cards handed to a detail-fetch generator
MaxStreamId == 2    \* their ids are 0..MaxStreamId, 0 standing for a missing id
MaxPages == 6       \* stands for MAX_PAGES, the page limit of scrape_query
MaxJobsArg == 2     \* the max_jobs argument of scrape_query is None or MaxJobsArg
MaxQueries == 3     \* the search queries of the JSON-mode scraper are 1..MaxQueries
MaxGoogleId == 2    \* the jobs its site lists have ids 1..MaxGoogleId
MaxGoogleRuns == 2  \* invocations of the JSON-mode scraper

\* ------------------------------------------------------ program constants
MISSED_RUN_THRESHOLD == 2
CHECKPOINT_INTERVAL == 100

Ids == 1..MaxId
Companies == {"apple", "microsoft"}
NULL == 0 - 1       \* SQL NULL / Python None in a timestamp column

\* get_iso_timestamp() reads the wall clock; how much time passes between two
\* reads is arbitrary.  Every read returns a later value than the one before,
\* and the lifecycle update and the audit write of the k-th invocation read the
\* clock at fixed slots of that invocation's time window.
Stride == MaxCards + 4
RunBase(k) == (k - 1) * Stride + 1
UpdateSlot(k) == RunBase(k) + MaxCards + 2
RecordSlot(k) == RunBase(k) + MaxCards + 3

\* How a transformed record behaves when it is written:
\*   "none" it can be written;
\*   "py"   the client raises while building the statement (json.dumps or
\*          parameter adaptation), before anything is sent to the server;
\*   "db"   the server rejects the row, which fails the open transaction.
Faults == {"none", "py", "db"}

VARIABLES
    jobs,         \* job_listings table: stored id -> row
    scrape_runs,  \* scrape_runs table: sequence of rows in insertion order
    clock,        \* next value get_iso_timestamp() returns
    nruns,        \* invocations started so far (also the source of run ids)
    pc,           \* position of the current invocation
    run,          \* locals of the current invocation
    writer,       \* the invocation's BatchWriter
    prev,         \* in a re-run: company and snapshot of the run it repeats
    absent_runs,  \* history: id -> successive returned runs of the job's
                  \* company, up to the latest, whose snapshot lacked the id
    stream,       \* a detail-fetch generator and the page it opened
    pager,        \* a scrape_query call and the page it opened
    google        \* the Google JSON-mode scraper: checkpoint file and output

vars == <<jobs, scrape_runs, clock, nruns, pc, run, writer, prev, absent_runs, stream, pager, google>>

\* ------------------------------------------------------------- sequences
RECURSIVE SeqIds(_)
SeqIds(s) == IF s = <<>> THEN {} ELSE {Head(s).id} \cup SeqIds(Tail(s))

HasDuplicateIds(s) == \E i, j \in 1..Len(s) : i < j /\ s[i].id = s[j].id

HasFault(s, f) == \E i \in 1..Len(s) : s[i].fault = f

CardSeqs == UNION {[1..n -> Ids] : n \in 0..MaxCards}

CardIds(cards) == {cards[i] : i \in 1..Len(cards)}

\* ------------------------------------------------------------ database.py
\* A row of job_listings as INSERT stores it: the lifecycle columns, and of
\* the details column the "_detail_fetch_failed" entry of details.raw.
Row(job) ==
    [company |-> job.company, status |-> job.status, closed_on |-> job.closed_on,
     created_at |-> job.created_at, first_seen_at |-> job.first_seen_at,
     last_seen_at |-> job.last_seen_at,
     consecutive_misses |-> job.consecutive_misses,
     detail_fetch_failed |-> job.detail_fetch_failed]

ActiveIdsAnyStatus(tbl, company) ==
    {id \in DOMAIN tbl : tbl[id].company = company}

get_active_job_ids(tbl, company) ==
    {id \in DOMAIN tbl : tbl[id].company = company /\ tbl[id].status = "OPEN"}

\* INSERT ... ON CONFLICT (id) DO UPDATE SET ... of one row.
UpsertRowBroken(tbl, job) ==
    IF job.id \in DOMAIN tbl
    THEN [tbl EXCEPT ![job.id] =
            [@ EXCEPT !.status = "OPEN", !.closed_on = NULL,
                      !.first_seen_at = job.first_seen_at,
                      !.last_seen_at = job.last_seen_at,
                      !.consecutive_misses = 0,
                      !.detail_fetch_failed = job.detail_fetch_failed]]
    ELSE (job.id :> Row(job)) @@ tbl

UpsertRow(tbl, job) ==
    IF job.id \in DOMAIN tbl
    THEN [tbl EXCEPT ![job.id] =
            [@ EXCEPT !.status = "OPEN", !.closed_on = NULL,
                      !.last_seen_at = job.last_seen_at,
                      !.consecutive_misses = 0,
                      !.detail_fetch_failed = job.detail_fetch_failed]]
    ELSE (job.id :> Row(job)) @@ tbl

\* INSERT ... ON CONFLICT (id) DO NOTHING of one row.
InsertRowIfAbsent(tbl, job) ==
    IF job.id \in DOMAIN tbl THEN tbl ELSE (job.id :> Row(job)) @@ tbl

RECURSIVE UpsertRows(_, _)
UpsertRows(tbl, s) ==
    IF s = <<>> THEN tbl ELSE UpsertRows(UpsertRow(tbl, Head(s)), Tail(s))

RECURSIVE InsertRows(_, _)
InsertRows(tbl, s) ==
    IF s = <<>> THEN tbl ELSE InsertRows(InsertRowIfAbsent(tbl, Head(s)), Tail(s))

\* Every write function returns [tbl, failed, raised, ret]: the table, whether
\* the connection is left in a failed transaction, whether the call raised,
\* and the returned value.
Raised(tbl, failed) == [tbl |-> tbl, failed |-> failed, raised |-> TRUE, ret |-> 0]
Returned(tbl, n) == [tbl |-> tbl, failed |-> FALSE, raised |-> FALSE, ret |-> n]

insert_job(tbl, failed, job) ==
    IF job.fault = "py" THEN Raised(tbl, failed)
    ELSE IF failed THEN Raised(tbl, TRUE)
    ELSE IF job.fault = "db" \/ job.id \in DOMAIN tbl THEN Raised(tbl, TRUE)
    ELSE Returned((job.id :> Row(job)) @@ tbl, 1)

UpsertJobAfterRollback(tbl, failed, job) ==
    IF job.fault = "py" THEN Raised(tbl, FALSE)
    ELSE IF job.fault = "db" THEN Raised(tbl, FALSE)
    ELSE Returned(UpsertRow(tbl, job), 1)

upsert_job(tbl, failed, job) ==
    IF job.fault = "py" THEN Raised(tbl, failed)
    ELSE IF failed THEN Raised(tbl, TRUE)
    ELSE IF job.fault = "db" THEN Raised(tbl, TRUE)
    ELSE Returned(UpsertRow(tbl, job), 1)

UpsertBatchLosesTail(tbl, failed, s) ==
    IF s = <<>> THEN [tbl |-> tbl, failed |-> failed, raised |-> FALSE, ret |-> 0]
    ELSE IF HasFault(s, "py") THEN Raised(tbl, failed)
    ELSE IF failed THEN Raised(tbl, TRUE)
    ELSE IF HasFault(s, "db") \/ HasDuplicateIds(s) THEN Raised(tbl, TRUE)
    ELSE Returned(UpsertRows(tbl, <<Head(s)>>), Len(s))

\* One INSERT ... VALUES (...),(...) ON CONFLICT DO UPDATE statement: the
\* server rejects it when two of its rows have the same id.
upsert_jobs_batch(tbl, failed, s) ==
    IF s = <<>> THEN [tbl |-> tbl, failed |-> failed, raised |-> FALSE, ret |-> 0]
    ELSE IF HasFault(s, "py") THEN Raised(tbl, failed)
    ELSE IF failed THEN Raised(tbl, TRUE)
    ELSE IF HasFault(s, "db") \/ HasDuplicateIds(s) THEN Raised(tbl, TRUE)
    ELSE Returned(UpsertRows(tbl, s), Len(s))

insert_jobs_batch(tbl, failed, s) ==
    IF s = <<>> THEN [tbl |-> tbl, failed |-> failed, raised |-> FALSE, ret |-> 0]
    ELSE IF HasFault(s, "py") THEN Raised(tbl, failed)
    ELSE IF failed THEN Raised(tbl, TRUE)
    ELSE IF HasFault(s, "db") THEN Raised(tbl, TRUE)
    ELSE Returned(InsertRows(tbl, s), Cardinality(SeqIds(s) \ DOMAIN tbl))

UpdateLastSeenNoReset(tbl, ids, timestamp) ==
    [id \in DOMAIN tbl |->
        IF id \in ids THEN [tbl[id] EXCEPT !.last_seen_at = timestamp] ELSE tbl[id]]

UpdateLastSeenRestamps(tbl, ids, timestamp) ==
    [id \in DOMAIN tbl |->
        IF id \in ids
        THEN [tbl[id] EXCEPT !.last_seen_at = timestamp, !.consecutive_misses = 0,
                             !.first_seen_at = timestamp]
        ELSE tbl[id]]

update_last_seen(tbl, ids, timestamp) ==
    [id \in DOMAIN tbl |->
        IF id \in ids
        THEN [tbl[id] EXCEPT !.last_seen_at = timestamp, !.consecutive_misses = 0]
        ELSE tbl[id]]

IncrementBroken(tbl, ids) == tbl

increment_consecutive_misses(tbl, ids) ==
    [id \in DOMAIN tbl |->
        IF id \in ids
        THEN [tbl[id] EXCEPT !.consecutive_misses = @ + 1]
        ELSE tbl[id]]

get_jobs_exceeding_miss_threshold(tbl, ids, threshold) ==
    {id \in DOMAIN tbl : id \in ids /\ tbl[id].consecutive_misses >= threshold}

MarkClosedBroken(tbl, ids, timestamp) ==
    [id \in DOMAIN tbl |->
        IF id \in ids THEN [tbl[id] EXCEPT !.status = "CLOSED"] ELSE tbl[id]]

MarkClosedDeletes(tbl, ids, timestamp) ==
    [id \in DOMAIN tbl \ ids |-> tbl[id]]

mark_jobs_closed(tbl, ids, timestamp) ==
    [id \in DOMAIN tbl |->
        IF id \in ids
        THEN [tbl[id] EXCEPT !.status = "CLOSED", !.closed_on = timestamp]
        ELSE tbl[id]]

\* -------------------------------------------------------- batch_writer.py
BatchWriterStats ==
    [total_processed |-> 0, total_written |-> 0, batches_written |-> 0, errors |-> 0]

\* What the most recent flush of a non-empty buffer did (observation only):
\* the buffer and the table it started from, the ids whose write call
\* returned, the number of fallback calls that raised, and the changes of the
\* counters.
NoFlush ==
    [called |-> FALSE, buf |-> <<>>, tbl_before |-> [id \in {} |-> 0],
     failed_before |-> FALSE, bulk_raised |-> FALSE, written |-> {},
     row_failures |-> 0, ret |-> 0, d_errors |-> 0, d_written |-> 0,
     d_batches |-> 0]

\* The fields BatchWriter.__init__ sets
NewWriter(batch_size, use_upsert) ==
    [batch_size |-> batch_size, use_upsert |-> use_upsert, buffer |-> <<>>,
     stats |-> BatchWriterStats, timestamp |-> 0, last_flush |-> NoFlush]

\* BatchWriter(...): [raised, w]; raises ValueError unless batch_size > 0
BatchWriterAcceptsAny(batch_size, use_upsert) ==
    [raised |-> FALSE, w |-> NewWriter(batch_size, use_upsert)]

BatchWriterInit(batch_size, use_upsert) ==
    [raised |-> batch_size <= 0, w |-> NewWriter(batch_size, use_upsert)]

\* _fallback_individual_writes: [tbl, failed, count, errors, raises, written]
\* after writing the records of s one by one, each in its own try.  count and
\* errors are the method's counters; raises and written observe the calls.
RECURSIVE FallbackFrom(_, _, _, _, _)
FallbackFrom(use_upsert, tbl, failed, s, acc) ==
    IF s = <<>> THEN [tbl |-> tbl, failed |-> failed, count |-> acc.count,
                      errors |-> acc.errors, raises |-> acc.raises,
                      written |-> acc.written]
    ELSE LET r == IF use_upsert THEN upsert_job(tbl, failed, Head(s))
                                ELSE insert_job(tbl, failed, Head(s))
         IN FallbackFrom(use_upsert, r.tbl, r.failed, Tail(s),
                IF r.raised THEN [acc EXCEPT !.errors = @ + 1, !.raises = @ + 1]
                            ELSE [acc EXCEPT !.count = @ + 1,
                                             !.written = @ \cup {Head(s).id}])

FallbackStart == [count |-> 0, errors |-> 0, raises |-> 0, written |-> {}]

FallbackNoRowErrors(use_upsert, tbl, failed, s) ==
    [FallbackFrom(use_upsert, tbl, failed, s, FallbackStart) EXCEPT !.errors = 0]

fallback_individual_writes(use_upsert, tbl, failed, s) ==
    FallbackFrom(use_upsert, tbl, failed, s, FallbackStart)

FlushCountsEveryBatch(w, tbl, failed) ==
    IF w.buffer = <<>>
    THEN [w |-> w, tbl |-> tbl, failed |-> failed, ret |-> 0]
    ELSE LET b  == IF w.use_upsert THEN upsert_jobs_batch(tbl, failed, w.buffer)
                                   ELSE insert_jobs_batch(tbl, failed, w.buffer)
             fb == fallback_individual_writes(w.use_upsert, b.tbl, b.failed, w.buffer)
             count == IF b.raised THEN fb.count ELSE b.ret
         IN [w |-> [w EXCEPT
                      !.buffer = <<>>,
                      !.stats = [w.stats EXCEPT
                                   !.batches_written = @ + 1,
                                   !.errors = IF b.raised THEN @ + 1 + fb.errors ELSE @,
                                   !.total_written = @ + count],
                      !.last_flush = [NoFlush EXCEPT !.called = TRUE,
                                                     !.bulk_raised = b.raised]],
             tbl |-> IF b.raised THEN fb.tbl ELSE b.tbl,
             failed |-> IF b.raised THEN fb.failed ELSE b.failed,
             ret |-> count]

FlushKeepsFailedBatch(w, tbl, failed) ==
    IF w.buffer = <<>>
    THEN [w |-> w, tbl |-> tbl, failed |-> failed, ret |-> 0]
    ELSE LET b  == IF w.use_upsert THEN upsert_jobs_batch(tbl, failed, w.buffer)
                                   ELSE insert_jobs_batch(tbl, failed, w.buffer)
             fb == fallback_individual_writes(w.use_upsert, b.tbl, b.failed, w.buffer)
             count == IF b.raised THEN fb.count ELSE b.ret
             stats == [w.stats EXCEPT
                         !.batches_written = IF b.raised THEN @ ELSE @ + 1,
                         !.errors = IF b.raised THEN @ + 1 + fb.errors ELSE @,
                         !.total_written = @ + count]
         IN [w |-> [w EXCEPT
                      !.buffer = IF b.raised /\ fb.raises > 0
                                 THEN SelectSeq(w.buffer,
                                        LAMBDA j : j.id \notin fb.written)
                                 ELSE <<>>,
                      !.stats = stats,
                      !.last_flush =
                          [called |-> TRUE, buf |-> w.buffer, tbl_before |-> tbl,
                           failed_before |-> failed, bulk_raised |-> b.raised,
                           written |-> IF b.raised THEN fb.written
                                       ELSE SeqIds(w.buffer),
                           row_failures |-> IF b.raised THEN fb.raises ELSE 0,
                           ret |-> count,
                           d_errors |-> stats.errors - w.stats.errors,
                           d_written |-> stats.total_written - w.stats.total_written,
                           d_batches |-> stats.batches_written - w.stats.batches_written]],
             tbl |-> IF b.raised THEN fb.tbl ELSE b.tbl,
             failed |-> IF b.raised THEN fb.failed ELSE b.failed,
             ret |-> count]

\* BatchWriter.flush: [w, tbl, failed, ret]
flush(w, tbl, failed) ==
    IF w.buffer = <<>>
    THEN [w |-> w, tbl |-> tbl, failed |-> failed, ret |-> 0]
    ELSE LET b  == IF w.use_upsert THEN upsert_jobs_batch(tbl, failed, w.buffer)
                                   ELSE insert_jobs_batch(tbl, failed, w.buffer)
             fb == fallback_individual_writes(w.use_upsert, b.tbl, b.failed, w.buffer)
             count == IF b.raised THEN fb.count ELSE b.ret
             stats == [w.stats EXCEPT
                         !.batches_written = IF b.raised THEN @ ELSE @ + 1,
                         !.errors = IF b.raised THEN @ + 1 + fb.errors ELSE @,
                         !.total_written = @ + count]
         IN [w |-> [w EXCEPT
                      !.buffer = <<>>,
                      !.stats = stats,
                      !.last_flush =
                          [called |-> TRUE, buf |-> w.buffer, tbl_before |-> tbl,
                           failed_before |-> failed, bulk_raised |-> b.raised,
                           written |-> IF b.raised THEN fb.written
                                       ELSE SeqIds(w.buffer),
                           row_failures |-> IF b.raised THEN fb.raises ELSE 0,
                           ret |-> count,
                           d_errors |-> stats.errors - w.stats.errors,
                           d_written |-> stats.total_written - w.stats.total_written,
                           d_batches |-> stats.batches_written - w.stats.batches_written]],
             tbl |-> IF b.raised THEN fb.tbl ELSE b.tbl,
             failed |-> IF b.raised THEN fb.failed ELSE b.failed,
             ret |-> count]

\* What scrape_job_details_streaming yields for one card, given whether
\* fetch_job_details raised for it: the card, with the details merged in or,
\* in the Microsoft scraper, with the "_detail_fetch_failed" entry.  A card
\* that is written without a detail scrape is the card itself.
scrape_job_details_streaming(company, id, fetch_raised) ==
    [id |-> id, detail_fetch_failed |-> fetch_raised /\ company = "microsoft"]

\* scraper.transform_to_job_model followed by the stamping of add_job
TransformedJob(job_data, company, created_at, timestamp, fault) ==
    [id |-> job_data.id, company |-> company, status |-> "OPEN", closed_on |-> NULL,
     created_at |-> created_at, first_seen_at |-> timestamp,
     last_seen_at |-> timestamp, consecutive_misses |-> 0,
     detail_fetch_failed |-> job_data.detail_fetch_failed, fault |-> fault]

AddJobFlushesLate(w, tbl, failed, job_data, company, created_at, timestamp, outcome) ==
    IF outcome = "transform_error"
    THEN [w |-> [w EXCEPT !.stats.errors = @ + 1], tbl |-> tbl, failed |-> failed]
    ELSE LET job == TransformedJob(job_data, company, created_at, timestamp, outcome)
             w1  == [w EXCEPT !.buffer = Append(@, job),
                              !.stats.total_processed = @ + 1]
         IN IF Len(w1.buffer) > w1.batch_size
            THEN LET f == flush(w1, tbl, failed)
                 IN [w |-> f.w, tbl |-> f.tbl, failed |-> f.failed]
            ELSE [w |-> w1, tbl |-> tbl, failed |-> failed]

AddJobCountsFailed(w, tbl, failed, job_data, company, created_at, timestamp, outcome) ==
    IF outcome = "transform_error"
    THEN [w |-> [w EXCEPT !.stats.errors = @ + 1, !.stats.total_processed = @ + 1],
          tbl |-> tbl, failed |-> failed]
    ELSE LET job == TransformedJob(job_data, company, created_at, timestamp, outcome)
             w1  == [w EXCEPT !.buffer = Append(@, job),
                              !.stats.total_processed = @ + 1]
         IN IF Len(w1.buffer) >= w1.batch_size
            THEN LET f == flush(w1, tbl, failed)
                 IN [w |-> f.w, tbl |-> f.tbl, failed |-> f.failed]
            ELSE [w |-> w1, tbl |-> tbl, failed |-> failed]

\* BatchWriter.add_job: [w, tbl, failed]; outcome is "transform_error" or the
\* fault of the transformed record.
add_job(w, tbl, failed, job_data, company, created_at, timestamp, outcome) ==
    IF outcome = "transform_error"
    THEN [w |-> [w EXCEPT !.stats.errors = @ + 1], tbl |-> tbl, failed |-> failed]
    ELSE LET job == TransformedJob(job_data, company, created_at, timestamp, outcome)
             w1  == [w EXCEPT !.buffer = Append(@, job),
                              !.stats.total_processed = @ + 1]
         IN IF Len(w1.buffer) >= w1.batch_size
            THEN LET f == flush(w1, tbl, failed)
                 IN [w |-> f.w, tbl |-> f.tbl, failed |-> f.failed]
            ELSE [w |-> w1, tbl |-> tbl, failed |-> failed]

\* ---------------------------------------------------------- incremental.py
DiffNewIsCurrent(current_ids, active_known_ids) ==
    [new_jobs     |-> current_ids,
     still_active |-> current_ids \cap active_known_ids,
     missing_jobs |-> active_known_ids \ current_ids]

DiffDropsMissing(current_ids, active_known_ids) ==
    [new_jobs     |-> current_ids \ active_known_ids,
     still_active |-> current_ids \cap active_known_ids,
     missing_jobs |-> {}]

calculate_job_diff(current_ids, active_known_ids) ==
    [new_jobs     |-> current_ids \ active_known_ids,
     still_active |-> current_ids \cap active_known_ids,
     missing_jobs |-> active_known_ids \ current_ids]

UpdateClosingOnFirstMiss(tbl, failed, still_active_ids, missing_ids, timestamp, threshold) ==
    IF failed /\ (still_active_ids \cup missing_ids) # {}
    THEN [tbl |-> tbl, raised |-> TRUE, closed |-> 0]
    ELSE LET t1 == update_last_seen(tbl, still_active_ids, timestamp)
             t2 == increment_consecutive_misses(t1, missing_ids)
         IN [tbl |-> mark_jobs_closed(t2, missing_ids, timestamp),
             raised |-> FALSE, closed |-> Cardinality(missing_ids)]

\* update_existing_jobs: [tbl, raised, closed].  Every database call raises
\* when the connection is in a failed transaction.
update_existing_jobs(tbl, failed, still_active_ids, missing_ids, timestamp, threshold) ==
    IF still_active_ids # {} /\ failed
    THEN [tbl |-> tbl, raised |-> TRUE, closed |-> 0]
    ELSE LET t1 == IF still_active_ids # {}
                   THEN update_last_seen(tbl, still_active_ids, timestamp)
                   ELSE tbl
         IN IF missing_ids = {} THEN [tbl |-> t1, raised |-> FALSE, closed |-> 0]
            ELSE IF failed THEN [tbl |-> t1, raised |-> TRUE, closed |-> 0]
            ELSE LET t2 == increment_consecutive_misses(t1, missing_ids)
                     jobs_to_close ==
                         get_jobs_exceeding_miss_threshold(t2, missing_ids, threshold)
                 IN IF jobs_to_close # {}
                    THEN [tbl |-> mark_jobs_closed(t2, jobs_to_close, timestamp),
                          raised |-> FALSE, closed |-> Cardinality(jobs_to_close)]
                    ELSE [tbl |-> t2, raised |-> FALSE, closed |-> 0]

\* The loop of process_new_jobs over the new cards: one writer.add_job per
\* card, outcomes[i] being the outcome of the i-th card and now the time of
\* the first add_job.
RECURSIVE AddJobs(_, _, _, _, _, _, _)
AddJobs(w, tbl, failed, new_job_cards, company, now, outcomes) ==
    IF new_job_cards = <<>> THEN [w |-> w, tbl |-> tbl, failed |-> failed]
    ELSE LET job_data == scrape_job_details_streaming(company, Head(new_job_cards),
                                                      FALSE)
             r == add_job(w, tbl, failed, job_data, company, now, w.timestamp,
                          Head(outcomes))
         IN AddJobs(r.w, r.tbl, r.failed, Tail(new_job_cards), company, now + 1,
                    Tail(outcomes))

\* process_new_jobs as one function: [tbl, failed, raised, details_fetched].
\* stream_raises: the detail stream raises before it yields its first card.
process_new_jobs(tbl, failed, new_job_cards, company, detail_scrape, batch_size, now, outcomes, stream_raises) ==
    IF new_job_cards = <<>>
    THEN [tbl |-> tbl, failed |-> failed, raised |-> FALSE, details_fetched |-> 0]
    ELSE LET b == BatchWriterInit(batch_size, TRUE)
         IN IF b.raised \/ (detail_scrape /\ stream_raises)
            THEN [tbl |-> tbl, failed |-> failed, raised |-> TRUE,
                  details_fetched |-> 0]
            ELSE LET a == AddJobs([b.w EXCEPT !.timestamp = now], tbl, failed,
                                  new_job_cards, company, now + 1, outcomes)
                     f == flush(a.w, a.tbl, a.failed)
                 IN [tbl |-> f.tbl, failed |-> f.failed, raised |-> FALSE,
                     details_fetched |-> IF detail_scrape THEN Len(new_job_cards)
                                         ELSE 0]

RecordOnlyCleanRuns(runs, failed, run_data) ==
    IF failed THEN [runs |-> runs, raised |-> TRUE]
    ELSE IF run_data.error_count > 0 THEN [runs |-> runs, raised |-> FALSE]
    ELSE [runs |-> Append(runs, run_data), raised |-> FALSE]

record_scrape_run(runs, failed, run_data) ==
    IF failed THEN [runs |-> runs, raised |-> TRUE]
    ELSE [runs |-> Append(runs, run_data), raised |-> FALSE]

\* ------------------------------------------------------------ invocations
\* The variables of the store and of the database-mode invocation
db_vars == <<jobs, scrape_runs, clock, nruns, pc, run, writer, prev, absent_runs>>

\* No detail-fetch generator, no scrape_query call and no JSON-mode run yet
IdleStream ==
    [scraper |-> "base", job_cards |-> <<>>, i |-> 1, yielded |-> <<>>,
     attempts |-> <<>>, failures |-> {}, pages_opened |-> 0, pages_closed |-> 0,
     state |-> "idle"]

IdlePager ==
    [scraper |-> "apple", max_jobs |-> 0, page_num |-> 1, consecutive_errors |-> 0,
     all_jobs |-> <<>>, log |-> <<>>, pages_opened |-> 0, pages_closed |-> 0,
     state |-> "idle", stop |-> "none", result |-> <<>>]

\* CheckpointData(completed_queries=[], jobs=[], ...)
NewCheckpoint == [completed_queries |-> <<>>, jobs |-> <<>>]

\* file: the checkpoint file; loaded: the checkpoint a --resume run started
\* from; scraped: the queries scrape_query was called for in the current run
IdleGoogle ==
    [state |-> "idle", runs |-> 0, resume |-> FALSE, resumed |-> FALSE,
     query |-> 1, checkpoint |-> NewCheckpoint, loaded |-> NewCheckpoint,
     all_jobs_data |-> <<>>, scraped |-> {},
     file |-> [exists |-> FALSE, data |-> NewCheckpoint],
     output |-> [written |-> FALSE, jobs |-> <<>>]]

ScrapersIdle == stream = IdleStream /\ pager = IdlePager /\ google = IdleGoogle

EmptyTable == [id \in {} |-> 0]

\* ScrapeResult() plus the locals of run_incremental_scrape / run_database_mode;
\* transform_raised and fetch_raised observe whether transform_to_job_model
\* and fetch_job_details raised for the latest card; batch_size is the
\* batch_size the writer is constructed with.
IdleRun ==
    [mode |-> "none", company |-> "apple", detail_scrape |-> FALSE,
     run_id |-> 0, timestamp |-> 0, failed |-> FALSE,
     job_cards |-> <<>>, new_ids |-> {}, still_active_ids |-> {},
     missing_ids |-> {}, queue |-> <<>>, details_count |-> 0,
     jobs_seen |-> 0, new_jobs |-> 0, closed_jobs |-> 0, details_fetched |-> 0,
     error_count |-> 0, scrape_error |-> "none", outcome |-> "none",
     updated |-> FALSE, pre_update |-> EmptyTable, update_ts |-> 0,
     transform_raised |-> FALSE, fetch_raised |-> FALSE,
     batch_size |-> BatchSize]

\* A re-run repeats the invocation before it for the same company while the
\* site lists the same jobs: prev holds that company and snapshot.  Any other
\* invocation has prev = NoPrev.
NoPrev == [valid |-> FALSE, company |-> "apple", job_cards |-> <<>>]

Summary(r) == [valid |-> TRUE, company |-> r.company, job_cards |-> r.job_cards]

\* Rows earlier invocations can have left in job_listings: an OPEN job seen in
\* the last run or missed once, or a job closed after its second miss.
InitRows ==
    {[company |-> c, status |-> "OPEN", closed_on |-> NULL, created_at |-> 0,
      first_seen_at |-> 0, last_seen_at |-> 0, consecutive_misses |-> m,
      detail_fetch_failed |-> FALSE] :
        c \in Companies, m \in 0..(MISSED_RUN_THRESHOLD - 1)}
    \cup
    {[company |-> c, status |-> "CLOSED", closed_on |-> 0, created_at |-> 0,
      first_seen_at |-> 0, last_seen_at |-> 0,
      consecutive_misses |-> MISSED_RUN_THRESHOLD,
      detail_fetch_failed |-> FALSE] : c \in Companies}

\* The history the stored rows stand for: a job was missed by as many runs as
\* its consecutive_misses column says; an id that is not stored by none.
StoredMisses(tbl) ==
    [id \in Ids \cup DOMAIN tbl |->
        IF id \in DOMAIN tbl THEN tbl[id].consecutive_misses ELSE 0]

\* The history after an invocation.  An incremental run that returned counts
\* for the jobs stored under its company: one more absence, or none when the
\* snapshot held the id; for a job that is not OPEN the count is the stored
\* column.  Any other invocation does not count.
AbsentRunsAfter(absent, tbl, r, outcome) ==
    IF r.mode = "incremental" /\ outcome = "returned"
    THEN [id \in DOMAIN absent |->
            IF id \in DOMAIN tbl /\ tbl[id].company = r.company
            THEN IF tbl[id].status # "OPEN" THEN tbl[id].consecutive_misses
                 ELSE IF id \in CardIds(r.job_cards) THEN 0
                 ELSE absent[id] + 1
            ELSE absent[id]]
    ELSE absent

Init ==
    /\ jobs \in UNION {[S -> InitRows] : S \in SUBSET Ids}
    /\ scrape_runs = <<>>
    /\ clock = 1
    /\ nruns = 0
    /\ pc = "idle"
    /\ run = IdleRun
    /\ writer = NewWriter(BatchSize, TRUE)
    /\ prev = NoPrev
    /\ absent_runs = StoredMisses(jobs)
    /\ ScrapersIdle

\* run_database_mode up to the first statement of the chosen mode: a fresh
\* connection, and for the incremental mode ScrapeResult() and the timestamp.
Start(mode, company, detail_scrape, remembered) ==
    /\ pc \in {"idle", "done"}
    /\ nruns < MaxRuns
    /\ nruns' = nruns + 1
    /\ prev' = remembered
    /\ run' = [IdleRun EXCEPT !.mode = mode, !.company = company,
                              !.detail_scrape = detail_scrape,
                              !.run_id = nruns + 1,
                              !.timestamp = RunBase(nruns + 1)]
    /\ clock' = RunBase(nruns + 1) + 1
    /\ writer' = NewWriter(BatchSize, TRUE)
    /\ pc' = "snapshot"
    /\ UNCHANGED <<jobs, scrape_runs, absent_runs, stream, pager, google>>

StartIncremental ==
    \E c \in Companies, d \in BOOLEAN : Start("incremental", c, d, NoPrev)

StartFull ==
    /\ nruns < MaxFullRuns
    /\ \E c \in Companies, d \in BOOLEAN : Start("full", c, d, NoPrev)

\* run_incremental_scrape is invoked again for the company of an incremental
\* run that has just returned, with the site unchanged
Rerun ==
    /\ run.mode = "incremental" /\ run.outcome = "returned"
    /\ \E d \in BOOLEAN : Start("incremental", run.company, d, Summary(run))

SnapshotSkipsDiff ==
    /\ pc = "snapshot"
    /\ \E cards \in (IF prev.valid THEN {prev.job_cards} ELSE CardSeqs) :
          run' = [run EXCEPT !.job_cards = cards, !.jobs_seen = Len(cards)]
    /\ pc' = "enrich_begin"
    /\ UNCHANGED <<jobs, scrape_runs, clock, nruns, writer, prev, absent_runs, stream, pager, google>>

\* Phase 1: scraper.scrape_all_queries() returns the job cards (in a re-run,
\* the cards of the remembered snapshot)
Snapshot ==
    /\ pc = "snapshot"
    /\ \E cards \in (IF prev.valid THEN {prev.job_cards} ELSE CardSeqs) :
          run' = [run EXCEPT !.job_cards = cards, !.jobs_seen = Len(cards)]
    /\ pc' = IF run.mode = "incremental" THEN "diff" ELSE "enrich_begin"
    /\ UNCHANGED <<jobs, scrape_runs, clock, nruns, writer, prev, absent_runs, stream, pager, google>>

\* Phase 1 raises.  Incremental: the except clause counts the error and the
\* run goes on to record_scrape_run.  Full: the exception leaves
\* run_database_mode.
SnapshotRaises ==
    /\ pc = "snapshot"
    /\ IF run.mode = "incremental"
       THEN /\ run' = [run EXCEPT !.error_count = @ + 1, !.scrape_error = "snapshot"]
            /\ pc' = "record"
       ELSE /\ run' = [run EXCEPT !.outcome = "raised", !.scrape_error = "snapshot"]
            /\ pc' = "done"
    /\ UNCHANGED <<jobs, scrape_runs, clock, nruns, writer, prev, absent_runs, stream, pager, google>>

\* Phase 2: get_active_job_ids, calculate_job_diff, new_job_cards
Diff ==
    /\ pc = "diff"
    /\ LET d == calculate_job_diff(CardIds(run.job_cards),
                                   get_active_job_ids(jobs, run.company))
       IN run' = [run EXCEPT
                    !.new_ids = d.new_jobs,
                    !.still_active_ids = d.still_active,
                    !.missing_ids = d.missing_jobs,
                    !.queue = SelectSeq(run.job_cards, LAMBDA id : id \in d.new_jobs)]
    /\ pc' = "enrich_begin"
    /\ UNCHANGED <<jobs, scrape_runs, clock, nruns, writer, prev, absent_runs, stream, pager, google>>

DiffRaisesThenUpdates ==
    /\ pc = "diff"
    /\ \E kind \in {"py", "db"} :
          run' = [run EXCEPT !.error_count = @ + 1, !.scrape_error = "diff",
                             !.failed = (kind = "db"),
                             !.missing_ids = get_active_job_ids(jobs, run.company)]
    /\ pc' = "update"
    /\ UNCHANGED <<jobs, scrape_runs, clock, nruns, writer, prev, absent_runs, stream, pager, google>>

\* Phase 2 raises: a card without an 'id' entry (kind "py"), or the SELECT of
\* get_active_job_ids is rejected by the server, which leaves the connection
\* in a failed transaction (kind "db").  The except clause counts the error
\* and the run goes on to record_scrape_run.
DiffRaises ==
    /\ pc = "diff"
    /\ \E kind \in {"py", "db"} :
          run' = [run EXCEPT !.error_count = @ + 1, !.scrape_error = "diff",
                             !.failed = (kind = "db")]
    /\ pc' = "record"
    /\ UNCHANGED <<jobs, scrape_runs, clock, nruns, writer, prev, absent_runs, stream, pager, google>>

\* Phase 3, entry of process_new_jobs (incremental) or the writer set-up of the
\* full mode: the timestamp, the BatchWriter, and the opening of the detail
\* stream.  process_new_jobs returns 0 at once when there is no new card; the
\* ValueError of the constructor is an exception of phase 3.
EnrichBegin ==
    /\ pc = "enrich_begin"
    /\ IF run.mode = "incremental" /\ run.queue = <<>>
       THEN /\ run' = [run EXCEPT !.details_fetched = 0,
                                  !.new_jobs = Cardinality(run.new_ids)]
            /\ pc' = "update"
            /\ UNCHANGED <<clock, writer>>
       ELSE LET b == BatchWriterInit(run.batch_size, run.mode = "incremental")
            IN IF b.raised
               THEN /\ IF run.mode = "incremental"
                       THEN /\ run' = [run EXCEPT !.error_count = @ + 1,
                                                  !.scrape_error = "value_error"]
                            /\ pc' = "record"
                       ELSE /\ run' = [run EXCEPT !.outcome = "raised",
                                                  !.scrape_error = "value_error"]
                            /\ pc' = "done"
                    /\ clock' = clock + 1
                    /\ UNCHANGED writer
               ELSE /\ run' = [run EXCEPT
                                 !.queue = IF run.mode = "full" THEN run.job_cards ELSE @]
                    /\ writer' = [b.w EXCEPT !.timestamp = clock]
                    /\ clock' = clock + 1
                    /\ pc' = "enrich"
    /\ UNCHANGED <<jobs, scrape_runs, nruns, prev, absent_runs, stream, pager, google>>

\* The detail stream raises while it opens its page or establishes its
\* session, before the first card is yielded.
DetailStreamRaises ==
    /\ pc = "enrich"
    /\ run.detail_scrape
    /\ run.details_count = 0 /\ writer.stats = BatchWriterStats
    /\ IF run.mode = "incremental"
       THEN /\ run' = [run EXCEPT !.error_count = @ + 1, !.scrape_error = "enrich"]
            /\ pc' = "record"
       ELSE /\ run' = [run EXCEPT !.outcome = "raised", !.scrape_error = "enrich"]
            /\ pc' = "done"
    /\ UNCHANGED <<jobs, scrape_runs, clock, nruns, writer, prev, absent_runs, stream, pager, google>>

\* One iteration of the loop over the cards: writer.add_job(job, timestamp),
\* with the flush it triggers when the buffer reaches batch_size.
AddJobOf(fetch_raised) ==
    /\ pc = "enrich"
    /\ run.queue # <<>>
    /\ \E outcome \in {"transform_error"} \cup Faults :
          LET job_data == scrape_job_details_streaming(run.company,
                                                      Head(run.queue), fetch_raised)
              r == add_job(writer, jobs, run.failed, job_data, run.company,
                           clock, writer.timestamp, outcome)
          IN /\ writer' = r.w
             /\ jobs' = r.tbl
             /\ run' = [run EXCEPT
                          !.failed = r.failed,
                          !.queue = Tail(@),
                          !.transform_raised = (outcome = "transform_error"),
                          !.fetch_raised = fetch_raised,
                          !.details_count = IF run.detail_scrape THEN @ + 1 ELSE @]
    /\ clock' = clock + 1
    /\ UNCHANGED <<scrape_runs, nruns, pc, prev, absent_runs, stream, pager, google>>

\* The card's details are fetched, or there is no detail scrape
AddJob == AddJobOf(FALSE)

\* fetch_job_details raises for the card; the stream goes on
AddJobFetchFailed == run.detail_scrape /\ AddJobOf(TRUE)

\* The process is stopped between two steps of phase 3 (a signal, a crash):
\* nothing more is executed, the store keeps what was committed.
Interrupt ==
    /\ pc = "enrich"
    /\ pc' = "interrupted"
    /\ UNCHANGED <<jobs, scrape_runs, clock, nruns, run, writer, prev, absent_runs, stream, pager, google>>

\* End of the loop: the final writer.flush(); process_new_jobs returns
\* details_fetched and run_incremental_scrape sets new_jobs.
FinishEnrich ==
    /\ pc = "enrich"
    /\ run.queue = <<>>
    /\ LET f == flush(writer, jobs, run.failed)
       IN /\ writer' = f.w
          /\ jobs' = f.tbl
          /\ run' = IF run.mode = "incremental"
                    THEN [run EXCEPT !.failed = f.failed,
                                     !.details_fetched = run.details_count,
                                     !.new_jobs = Cardinality(run.new_ids)]
                    ELSE [run EXCEPT !.failed = f.failed]
    /\ pc' = IF run.mode = "incremental" THEN "update" ELSE "record"
    /\ UNCHANGED <<scrape_runs, clock, nruns, prev, absent_runs, stream, pager, google>>

\* Phase 4: update_existing_jobs with the default threshold
UpdateExisting ==
    /\ pc = "update"
    /\ LET timestamp == UpdateSlot(run.run_id)
           u == update_existing_jobs(jobs, run.failed, run.still_active_ids,
                                     run.missing_ids, timestamp, MISSED_RUN_THRESHOLD)
       IN /\ jobs' = u.tbl
          /\ run' = IF u.raised
                    THEN [run EXCEPT !.error_count = @ + 1, !.scrape_error = "update",
                                     !.pre_update = jobs, !.update_ts = timestamp]
                    ELSE [run EXCEPT !.closed_jobs = u.closed, !.updated = TRUE,
                                     !.pre_update = jobs, !.update_ts = timestamp]
    /\ clock' = UpdateSlot(run.run_id) + 1
    /\ pc' = "record"
    /\ UNCHANGED <<scrape_runs, nruns, writer, prev, absent_runs, stream, pager, google>>

\* The ScrapeRun row an invocation writes
RunRecord(r, w, completed_at) ==
    IF r.mode = "incremental"
    THEN [run_id |-> r.run_id, company |-> r.company, started_at |-> r.timestamp,
          completed_at |-> completed_at, mode |-> "incremental",
          jobs_seen |-> r.jobs_seen, new_jobs |-> r.new_jobs,
          closed_jobs |-> r.closed_jobs, details_fetched |-> r.details_fetched,
          error_count |-> r.error_count]
    ELSE [run_id |-> r.run_id, company |-> r.company, started_at |-> w.timestamp,
          completed_at |-> completed_at, mode |-> "full",
          jobs_seen |-> Len(r.job_cards), new_jobs |-> w.stats.total_written,
          closed_jobs |-> 0,
          details_fetched |-> IF r.detail_scrape THEN r.details_count ELSE 0,
          error_count |-> w.stats.errors]

\* Phase 5: record_scrape_run, then re-raise the scrape error or return.
\* outcome is "record_raised" when the exception of record_scrape_run itself
\* leaves the invocation, "raised" when the scrape error is re-raised.
RecordRun ==
    /\ pc = "record"
    /\ LET rec == record_scrape_run(scrape_runs, run.failed,
                                    RunRecord(run, writer, RecordSlot(run.run_id)))
           outcome == IF rec.raised THEN "record_raised"
                      ELSE IF run.scrape_error # "none" THEN "raised"
                      ELSE "returned"
       IN /\ scrape_runs' = rec.runs
          /\ run' = [run EXCEPT !.outcome = outcome]
          /\ absent_runs' = AbsentRunsAfter(absent_runs, jobs, run, outcome)
    /\ clock' = RunBase(run.run_id + 1)
    /\ pc' = "done"
    /\ UNCHANGED <<jobs, nruns, writer, prev, stream, pager, google>>

Next ==
    \/ StartIncremental
    \/ Snapshot
    \/ SnapshotRaises
    \/ Diff
    \/ EnrichBegin
    \/ DetailStreamRaises
    \/ AddJob
    \/ FinishEnrich
    \/ UpdateExisting
    \/ RecordRun

\* Invocations with --incremental
Spec == Init /\ [][Next]_vars

\* Invocations in either mode on the same store
NextFull == Next \/ StartFull
SpecFull == Init /\ [][NextFull]_vars

\* Phase 2 alone, over a larger set of ids: an incremental invocation for
\* "apple" stands before its diff with any snapshot (cards in ascending order
\* of id) and any store of OPEN and CLOSED jobs of the company.
DiffIds == 1..MaxDiffId

RECURSIVE SortedSeq(_)
SortedSeq(S) ==
    IF S = {} THEN <<>>
    ELSE LET m == CHOOSE x \in S : \A y \in S : x <= y
         IN <<m>> \o SortedSeq(S \ {m})

InitDiff ==
    /\ jobs \in UNION {[S -> {r \in InitRows : r.company = "apple"
                                  /\ r.consecutive_misses # 1}] :
                         S \in SUBSET DiffIds}
    /\ scrape_runs = <<>>
    /\ nruns = 1
    /\ clock = RunBase(1) + 1
    /\ pc = "diff"
    /\ \E S \in SUBSET DiffIds :
          run = [IdleRun EXCEPT !.mode = "incremental", !.run_id = 1,
                                !.timestamp = RunBase(1),
                                !.job_cards = SortedSeq(S),
                                !.jobs_seen = Cardinality(S)]
    /\ writer = NewWriter(BatchSize, TRUE)
    /\ prev = NoPrev
    /\ absent_runs = StoredMisses(jobs)
    /\ ScrapersIdle

NextDiff == Diff
SpecDiff == InitDiff /\ [][NextDiff]_vars

\* Phase 3 alone, over a larger set of ids: process_new_jobs is entered by an
\* incremental invocation with any batch_size, the cards of any set of new
\* ids (in ascending order of id) and any store of CLOSED jobs of the company;
\* single detail fetches can fail and the process can be stopped.
EnrichIds == 1..MaxEnrichId

BatchSizes == (0 - 1)..BatchSize

InitEnrich ==
    /\ \E c \in Companies, d \in BOOLEAN, n \in BatchSizes, S \in SUBSET EnrichIds :
          /\ jobs \in UNION {[T -> {r \in InitRows : r.company = c
                                        /\ r.status = "CLOSED"}] :
                               T \in SUBSET S}
          /\ run = [IdleRun EXCEPT !.mode = "incremental", !.company = c,
                                   !.detail_scrape = d, !.run_id = 1,
                                   !.timestamp = RunBase(1),
                                   !.job_cards = SortedSeq(S),
                                   !.jobs_seen = Cardinality(S),
                                   !.new_ids = S,
                                   !.queue = SortedSeq(S),
                                   !.batch_size = n]
    /\ scrape_runs = <<>>
    /\ nruns = 1
    /\ clock = RunBase(1) + 1
    /\ pc = "enrich_begin"
    /\ writer = NewWriter(BatchSize, TRUE)
    /\ prev = NoPrev
    /\ absent_runs = StoredMisses(jobs)
    /\ ScrapersIdle

NextEnrich ==
    \/ EnrichBegin
    \/ DetailStreamRaises
    \/ AddJob
    \/ AddJobFetchFailed
    \/ FinishEnrich
    \/ Interrupt

SpecEnrich == InitEnrich /\ [][NextEnrich]_vars

\* Phases 2 to 4 over a larger set of ids: an incremental invocation without
\* detail scrape stands before its diff with any snapshot (cards in ascending
\* order of id) and any store of jobs of the two companies.
LifecycleIds == 1..MaxLifecycleId

InitLifecycle ==
    /\ jobs \in UNION {[S -> InitRows] : S \in SUBSET LifecycleIds}
    /\ scrape_runs = <<>>
    /\ nruns = 1
    /\ clock = RunBase(1) + 1
    /\ pc = "diff"
    /\ \E c \in Companies, S \in SUBSET LifecycleIds :
          run = [IdleRun EXCEPT !.mode = "incremental", !.company = c,
                                !.run_id = 1, !.timestamp = RunBase(1),
                                !.job_cards = SortedSeq(S),
                                !.jobs_seen = Cardinality(S)]
    /\ writer = NewWriter(BatchSize, TRUE)
    /\ prev = NoPrev
    /\ absent_runs = StoredMisses(jobs)
    /\ ScrapersIdle

NextLifecycle ==
    \/ Diff
    \/ EnrichBegin
    \/ AddJob
    \/ FinishEnrich
    \/ UpdateExisting

SpecLifecycle == InitLifecycle /\ [][NextLifecycle]_vars

\* Incremental invocations whose diff phase can raise as well
NextAbort == Next \/ DiffRaises
SpecAbort == Init /\ [][NextAbort]_vars

\* Incremental invocations, each a fresh run or a re-run of the one before
NextRerun == Next \/ Rerun
SpecRerun == Init /\ [][NextRerun]_vars

\* ================================================================ claims
RunRows(run_id) == {i \in DOMAIN scrape_runs : scrape_runs[i].run_id = run_id}

\* The lifecycle update of the current incremental invocation has returned
AfterUpdate == pc \in {"record", "done"} /\ run.mode = "incremental" /\ run.updated

\* The table is as the writer's most recent flush left it
AfterFlush == pc \in {"enrich", "update"} /\ writer.last_flush.called

\* C1: when the snapshot phase of run_incremental_scrape raises, the invocation
\* still writes exactly one ScrapeRun row carrying its run_id, and that row
\* has error_count >= 1.
C1_AuditOnSnapshotFailure ==
    (pc = "done" /\ run.mode = "incremental" /\ run.scrape_error = "snapshot")
        => /\ Cardinality(RunRows(run.run_id)) = 1
           /\ \A i \in RunRows(run.run_id) : scrape_runs[i].error_count >= 1

C1_Witness ==
    /\ pc = "done" /\ run.mode = "incremental" /\ run.scrape_error = "snapshot"
    /\ RunRows(run.run_id) # {}

C4_ClosedOnIffClosed ==
    \A id \in DOMAIN jobs : (jobs[id].closed_on # NULL) <=> (jobs[id].status = "CLOSED")

C4_Witness ==
    /\ pc = "record" /\ run.mode = "incremental" /\ run.closed_jobs >= 1
    /\ \E id \in DOMAIN jobs :
          /\ run.pre_update[id].status = "OPEN"
          /\ jobs[id].status = "CLOSED"
          /\ jobs[id].closed_on = run.update_ts
    /\ \E id \in DOMAIN jobs : jobs[id].status = "OPEN"

\* Jobs of the invocation's company that are OPEN and whose id is in the
\* invocation's snapshot all have consecutive_misses = 0
SnapshotJobsReset ==
    \A id \in CardIds(run.job_cards) :
        (id \in DOMAIN jobs /\ jobs[id].company = run.company /\ jobs[id].status = "OPEN")
            => jobs[id].consecutive_misses = 0

RECURSIVE LastRecord(_, _)
LastRecord(s, id) ==
    IF s[Len(s)].id = id THEN s[Len(s)] ELSE LastRecord(SubSeq(s, 1, Len(s) - 1), id)

\* C6: when a CLOSED job is written again through the upsert path, the stored
\* row keeps its created_at and first_seen_at and ends OPEN with closed_on
\* null, consecutive_misses 0 and the incoming record's last_seen_at.
C6_ReactivationKeepsProvenance ==
    (AfterFlush /\ writer.use_upsert) =>
        \A id \in writer.last_flush.written :
            LET old == writer.last_flush.tbl_before
                new == LastRecord(writer.last_flush.buf, id)
            IN (id \in DOMAIN old /\ old[id].status = "CLOSED")
                  => /\ jobs[id].created_at = old[id].created_at
                     /\ jobs[id].first_seen_at = old[id].first_seen_at
                     /\ jobs[id].status = "OPEN"
                     /\ jobs[id].closed_on = NULL
                     /\ jobs[id].consecutive_misses = 0
                     /\ jobs[id].last_seen_at = new.last_seen_at

C6_Witness ==
    /\ AfterFlush /\ writer.use_upsert
    /\ \E id \in writer.last_flush.written :
          /\ id \in DOMAIN writer.last_flush.tbl_before
          /\ writer.last_flush.tbl_before[id].status = "CLOSED"
          /\ LastRecord(writer.last_flush.buf, id).first_seen_at
                # writer.last_flush.tbl_before[id].first_seen_at
          /\ jobs[id].status = "OPEN"

\* The current invocation is over; it repeated an incremental run of the
\* same company that had returned normally, and saw the same snapshot
SecondRunOnSameSnapshot ==
    /\ pc = "done" /\ run.mode = "incremental"
    /\ prev.valid /\ prev.company = run.company /\ prev.job_cards = run.job_cards

\* C7: when run_incremental_scrape runs twice in succession for one company
\* with the same snapshot and nothing else changes the store, the second run
\* reports new_jobs = 0 and every job of the snapshot is stored with
\* consecutive_misses = 0.
C7_SecondRunFindsNothingNew ==
    SecondRunOnSameSnapshot =>
        /\ run.new_jobs = 0
        /\ \A id \in CardIds(run.job_cards) :
              id \in DOMAIN jobs /\ jobs[id].consecutive_misses = 0

\* The flush before the current state had a buffer in which exactly one record
\* is bad, on a healthy connection of a writer in upsert mode
FlushWithOneBadRecord ==
    /\ writer.last_flush.called /\ writer.use_upsert
    /\ ~writer.last_flush.failed_before
    /\ ~HasDuplicateIds(writer.last_flush.buf)
    /\ Cardinality({i \in 1..Len(writer.last_flush.buf) :
                       writer.last_flush.buf[i].fault # "none"}) = 1

BadRecord ==
    LET buf == writer.last_flush.buf
    IN buf[CHOOSE i \in 1..Len(buf) : buf[i].fault # "none"]

C9_FallbackAccounting ==
    (writer.last_flush.called /\ writer.last_flush.bulk_raised) =>
        LET f == writer.last_flush
            n == Len(f.buf)
            k == f.row_failures
        IN /\ f.d_errors = 1 + k
           /\ f.d_written = n - k
           /\ f.ret = n - k
           /\ f.d_batches = 0

C9_Witness ==
    /\ writer.last_flush.called /\ writer.last_flush.bulk_raised
    /\ writer.last_flush.row_failures > 0
    /\ writer.last_flush.row_failures < Len(writer.last_flush.buf)
    /\ writer.last_flush.d_errors = 1 + writer.last_flush.row_failures

\* C10: every error the batch writer counts during phase 3 of a run is
\* included in the error_count of the run's result and of its ScrapeRun row,
\* so a run that returns normally after dropping a record reports
\* error_count >= 1.
C10_WriterErrorsReported ==
    (pc = "done" /\ run.mode = "incremental" /\ run.outcome = "returned"
        /\ writer.stats.errors >= 1)
        => /\ run.error_count >= writer.stats.errors
           /\ \A i \in RunRows(run.run_id) :
                 scrape_runs[i].error_count >= writer.stats.errors


\* C11: when one of phases 1-4 of run_incremental_scrape raises, the ScrapeRun
\* row of the invocation is written and the invocation then ends by
\* re-raising that original exception; it never returns normally.
C11_RecordThenReraise ==
    (pc = "done" /\ run.mode = "incremental" /\ run.scrape_error # "none")
        => /\ Cardinality(RunRows(run.run_id)) = 1
           /\ run.outcome = "raised"


\* Every invocation that has ended has exactly one row in scrape_runs
OneRowPerInvocation ==
    pc \in {"idle", "done"} => \A k \in 1..nruns : Cardinality(RunRows(k)) = 1

\* A step leaves the rows that scrape_runs already holds as they are
RowsKept ==
    /\ Len(scrape_runs') >= Len(scrape_runs)
    /\ SubSeq(scrape_runs', 1, Len(scrape_runs)) = scrape_runs

\* C12: after any sequence of run_incremental_scrape invocations scrape_runs
\* holds exactly one row per invocation, successful or failed, and no
\* invocation changes or removes a row written by an earlier one.
C12_OneRowEachAppendOnly == []OneRowPerInvocation /\ [][RowsKept]_vars


\* The inputs of the diff the current invocation has just computed
DiffDone == pc = "enrich_begin" /\ run.mode = "incremental"
DiffCurrent == CardIds(run.job_cards)
DiffKnown == get_active_job_ids(jobs, run.company)

\* C13: calculate_job_diff returns three pairwise disjoint sets; new_jobs and
\* still_active together are exactly current_ids, still_active and
\* missing_jobs together are exactly active_known_ids.
C13_DiffPartitions ==
    DiffDone =>
        /\ run.new_ids \cap run.still_active_ids = {}
        /\ run.new_ids \cap run.missing_ids = {}
        /\ run.still_active_ids \cap run.missing_ids = {}
        /\ run.new_ids \cup run.still_active_ids = DiffCurrent
        /\ run.still_active_ids \cup run.missing_ids = DiffKnown

C13_Witness ==
    /\ DiffDone
    /\ run.new_ids # {} /\ run.still_active_ids # {} /\ run.missing_ids # {}
    /\ Cardinality(DiffCurrent \cup DiffKnown) >= 4

\* C14: calculate_job_diff returns three empty sets when both inputs are
\* empty, and new_jobs = current_ids, still_active = {} and missing_jobs =
\* active_known_ids when the inputs share no id; the snapshot and the store
\* it read are as they were.
C14_DiffEmptyAndDisjoint ==
    DiffDone =>
        /\ (DiffCurrent = {} /\ DiffKnown = {})
              => (run.new_ids = {} /\ run.still_active_ids = {}
                    /\ run.missing_ids = {})
        /\ (DiffCurrent \cap DiffKnown = {})
              => /\ run.new_ids = DiffCurrent
                 /\ run.still_active_ids = {}
                 /\ run.missing_ids = DiffKnown
        /\ run.jobs_seen = Len(run.job_cards)

C14_Witness ==
    /\ DiffDone
    /\ DiffCurrent # {} /\ DiffKnown # {} /\ DiffCurrent \cap DiffKnown = {}
    /\ run.new_ids = DiffCurrent /\ run.missing_ids = DiffKnown


\* C15: between invocations the consecutive_misses of every OPEN job is the
\* number of successive returned runs of its company, up to the latest, whose
\* snapshot lacked its id.
C15_MissesCountAbsentRuns ==
    pc \in {"idle", "done"} =>
        \A id \in DOMAIN jobs :
            jobs[id].status = "OPEN"
                => jobs[id].consecutive_misses = absent_runs[id]


\* C16: no step removes a job record: every id stored in job_listings before
\* a step is stored after it.
C16_NoJobRemoved == [][DOMAIN jobs \subseteq DOMAIN jobs']_vars

C16_Witness ==
    /\ pc = "done" /\ nruns = MaxRuns
    /\ run.updated /\ run.closed_jobs >= 1
    /\ writer.stats.total_written >= 1
    /\ \E id \in run.missing_ids :
          id \in DOMAIN jobs /\ jobs[id].status = "CLOSED"


\* Stored ids of the snapshot that are CLOSED.  A run closes only ids its
\* snapshot lacks, so after the diff these are the ids that were CLOSED when
\* the run started and have not been reactivated.
ClosedInSnapshot ==
    {id \in CardIds(run.job_cards) \cap DOMAIN jobs : jobs[id].status = "CLOSED"}

\* C17: a CLOSED job whose id is in the snapshot of an incremental run is
\* classified as new and queued for the writer, which uses the upsert path,
\* and the job is OPEN when that run has returned.
C17_ClosedJobReactivated ==
    /\ DiffDone => /\ ClosedInSnapshot \subseteq run.new_ids
                   /\ ClosedInSnapshot \subseteq CardIds(run.queue)
    /\ (pc = "enrich" /\ run.mode = "incremental") => writer.use_upsert
    /\ (pc = "done" /\ run.mode = "incremental" /\ run.outcome = "returned")
          => ClosedInSnapshot = {}


\* A step that is one call of writer.add_job
AddJobStep == pc = "enrich" /\ run.queue # <<>> /\ run'.queue = Tail(run.queue)

\* C18: when transform_to_job_model raises inside add_job the exception does
\* not leave add_job (the loop goes on, the run counts no error), stats.errors
\* grows by 1, the buffer, total_processed, total_written and the store are
\* unchanged and the item is not taken up again; an add_job whose transform
\* succeeds, before or after such a failure, counts the record as processed
\* and buffers it or writes it with the batch it completes.
C18_TransformFailureIsolated ==
    [][AddJobStep =>
        IF run'.transform_raised
        THEN /\ pc' = "enrich"
             /\ run'.scrape_error = run.scrape_error
             /\ run'.error_count = run.error_count
             /\ writer'.stats = [writer.stats EXCEPT !.errors = @ + 1]
             /\ writer'.buffer = writer.buffer
             /\ writer'.last_flush = writer.last_flush
             /\ jobs' = jobs
             /\ Len(run'.queue) = Len(run.queue) - 1
        ELSE /\ writer'.stats.total_processed = writer.stats.total_processed + 1
             /\ \/ /\ Len(writer'.buffer) = Len(writer.buffer) + 1
                   /\ writer'.buffer[Len(writer'.buffer)].id = Head(run.queue)
                   /\ SubSeq(writer'.buffer, 1, Len(writer.buffer)) = writer.buffer
                \/ /\ writer'.buffer = <<>>
                   /\ writer'.last_flush.called
                   /\ Len(writer'.last_flush.buf) = Len(writer.buffer) + 1
                   /\ writer'.last_flush.buf[Len(writer.buffer) + 1].id = Head(run.queue)
                   /\ SubSeq(writer'.last_flush.buf, 1, Len(writer.buffer)) = writer.buffer
    ]_vars

C18_Witness ==
    /\ pc = "update" /\ Len(run.job_cards) = 2
    /\ ~run.transform_raised
    /\ writer.stats.errors = 1
    /\ writer.stats.total_processed = 1
    /\ writer.stats.total_written = 1
    /\ writer.last_flush.called /\ ~writer.last_flush.bulk_raised
    /\ writer.last_flush.written \subseteq DOMAIN jobs


\* C19: add_job flushes as soon as the buffer holds batch_size records, so
\* the buffer holds fewer than batch_size records whenever no add_job is in
\* progress.
C19_BufferBelowBatchSize == Len(writer.buffer) < writer.batch_size

C19_Witness ==
    /\ pc = "enrich" /\ run.queue = <<>>
    /\ writer.last_flush.called
    /\ Len(writer.last_flush.buf) = writer.batch_size
    /\ writer.buffer = <<>>
    /\ writer.stats.total_processed = writer.batch_size

\* A step in which flush() wrote a buffer: by add_job when the buffer filled,
\* or at the end of the loop over the cards
FlushStep ==
    \/ /\ AddJobStep /\ ~run'.transform_raised
       /\ Len(writer.buffer) + 1 >= writer.batch_size
    \/ /\ pc = "enrich" /\ run.queue = <<>>
       /\ pc' # "enrich" /\ run'.scrape_error = run.scrape_error

\* C20: after every flush() the buffer is empty, whether the bulk write, the
\* fallback or single rows of the fallback failed; records that could not be
\* written are not kept.
C20_BufferEmptyAfterFlush ==
    [][FlushStep => writer'.buffer = <<>>]_vars

C20_Witness ==
    /\ pc \in {"enrich", "update"} /\ writer.last_flush.called
    /\ writer.last_flush.bulk_raised
    /\ writer.last_flush.row_failures >= 1
    /\ writer.last_flush.row_failures < Len(writer.last_flush.buf)
    /\ writer.buffer = <<>>
    /\ \E i \in 1..Len(writer.last_flush.buf) :
          writer.last_flush.buf[i].id \notin DOMAIN jobs


\* The jobs the invocation's writer has stored: OPEN rows stamped with the
\* writer's timestamp
StoredByWriter ==
    {id \in DOMAIN jobs : jobs[id].status = "OPEN"
                            /\ jobs[id].last_seen_at = writer.timestamp}

LatestRecord ==
    IF writer.buffer # <<>> THEN writer.buffer[Len(writer.buffer)]
    ELSE writer.last_flush.buf[Len(writer.last_flush.buf)]

\* C22: when fetch_job_details raises for a new job, the detail stream still
\* yields a record for it, the record carries the failure marker
\* "_detail_fetch_failed", and it goes to the batch writer like any other:
\* it is buffered, or written with the batch it completes and then stored
\* with the marker.
C22_FailedFetchMarkedAndWritten ==
    [][(AddJobStep /\ run'.fetch_raised /\ ~run'.transform_raised) =>
          /\ writer'.stats.total_processed = writer.stats.total_processed + 1
          /\ LatestRecord'.id = Head(run.queue)
          /\ LatestRecord'.detail_fetch_failed
          /\ (writer'.buffer = <<>> /\ LatestRecord'.id \in writer'.last_flush.written)
                => /\ LatestRecord'.id \in DOMAIN jobs'
                   /\ jobs'[LatestRecord'.id].detail_fetch_failed]_vars


\* C23: in an incremental run with a detail scrape, the cards that are or
\* have been handed to the detail fetch are cards of new ids, none of a
\* still-active id, one card per new id (fetched and waiting cards together
\* number the new ids), so that details_fetched never exceeds new_jobs.
C23_DetailFetchOncePerNewId ==
    (run.mode = "incremental" /\ run.detail_scrape) =>
        /\ pc = "enrich" =>
              /\ CardIds(run.queue) \subseteq run.new_ids
              /\ CardIds(run.queue) \cap run.still_active_ids = {}
              /\ run.details_count + Len(run.queue) = Cardinality(run.new_ids)
        /\ pc \in {"update", "record", "done"} =>
              /\ run.details_count <= Cardinality(run.new_ids)
              /\ run.details_fetched <= Cardinality(run.new_ids)
              /\ run.scrape_error = "none" => run.details_fetched <= run.new_jobs


\* The phase a step of an incremental invocation may lead to
PhaseAfter ==
    [idle         |-> {"snapshot"},
     done         |-> {"snapshot"},
     snapshot     |-> {"diff", "record"},
     diff         |-> {"enrich_begin"},
     enrich_begin |-> {"enrich", "update", "record"},
     enrich       |-> {"enrich", "update", "record"},
     update       |-> {"record"},
     record       |-> {"done"}]

\* C24: an incremental invocation goes through snapshot, diff, enrichment,
\* lifecycle update and record run in this order (a phase that raises leads
\* to record run): the diff sets are computed in the step after the snapshot
\* and in no other, job_listings changes only in the enrichment and the
\* lifecycle update, and the ScrapeRun row is written by the last step.
C24_PhasesInOrder ==
    [][run'.mode = "incremental" =>
          /\ pc' \in PhaseAfter[pc]
          /\ (pc \notin {"idle", "done"}
                /\ <<run'.new_ids, run'.still_active_ids, run'.missing_ids>>
                     # <<run.new_ids, run.still_active_ids, run.missing_ids>>)
                => (pc = "diff" /\ run.jobs_seen = Len(run.job_cards))
          /\ jobs' # jobs => pc \in {"enrich", "update"}
          /\ scrape_runs' # scrape_runs => (pc = "record" /\ pc' = "done")
          /\ pc = "record" => jobs' = jobs]_vars

C24_Witness ==
    /\ pc = "done" /\ run.mode = "incremental" /\ run.outcome = "returned"
    /\ run.job_cards # <<>> /\ run.new_ids # {} /\ run.missing_ids # {}
    /\ writer.stats.total_written >= 1
    /\ run.updated
    /\ Cardinality(RunRows(run.run_id)) = 1


\* C25: a step of an incremental invocation for one company leaves every job
\* record of another company as it was, also when the id of that record is
\* in the invocation's snapshot.
C25_OtherCompaniesUntouched ==
    [][run.mode = "incremental" =>
          \A id \in DOMAIN jobs :
              jobs[id].company # run.company
                  => (id \in DOMAIN jobs' /\ jobs'[id] = jobs[id])]_vars


\* The table is as the latest flush of a full-mode writer (use_upsert = False)
\* left it; the flush started on a healthy connection with records of
\* distinct ids, none of which the server rejects
AfterInsertFlush ==
    /\ run.mode = "full" /\ pc \in {"enrich", "record"}
    /\ writer.last_flush.called /\ ~writer.use_upsert
    /\ ~writer.last_flush.failed_before
    /\ ~HasDuplicateIds(writer.last_flush.buf)
    /\ ~HasFault(writer.last_flush.buf, "db")

\* Positions of the flushed records that can be written and whose id was
\* already stored, and of those the client cannot write
AlreadyStored ==
    {i \in 1..Len(writer.last_flush.buf) :
        /\ writer.last_flush.buf[i].fault = "none"
        /\ writer.last_flush.buf[i].id \in DOMAIN writer.last_flush.tbl_before}
Unwritable ==
    {i \in 1..Len(writer.last_flush.buf) : writer.last_flush.buf[i].fault = "py"}

\* C26: with use_upsert = False, a flushed record whose id is already stored
\* leaves the stored row as it was, is not counted as written and is not
\* counted as an error, whether the bulk insert succeeds or the flush falls
\* back to individual inserts: the flush counts as written the other
\* writable records and as errors only the failed bulk insert and the
\* unwritable records.
C26_InsertSkipsStoredIds ==
    AfterInsertFlush =>
        LET f == writer.last_flush IN
        /\ \A i \in AlreadyStored : jobs[f.buf[i].id] = f.tbl_before[f.buf[i].id]
        /\ f.d_written = Len(f.buf) - Cardinality(AlreadyStored)
                            - Cardinality(Unwritable)
        /\ f.d_errors = IF Unwritable = {} THEN 0 ELSE 1 + Cardinality(Unwritable)


\* A step that constructs the BatchWriter of phase 3
ConstructWriterStep == pc = "enrich_begin" /\ pc' # "update"

\* C27: constructing a BatchWriter with batch_size <= 0 raises ValueError at
\* once: no writer exists, nothing is buffered, the store is not touched, and
\* the exception is the error of the invocation; with batch_size > 0 the
\* writer is constructed with that batch size and an empty buffer.
C27_NonPositiveBatchSizeRejected ==
    [][ConstructWriterStep =>
          IF run.batch_size <= 0
          THEN /\ run'.scrape_error = "value_error"
               /\ pc' \in {"record", "done"}
               /\ writer' = writer
               /\ jobs' = jobs /\ scrape_runs' = scrape_runs
          ELSE /\ pc' = "enrich"
               /\ run'.scrape_error = "none"
               /\ writer'.batch_size = run.batch_size
               /\ writer'.buffer = <<>> /\ writer'.stats = BatchWriterStats]_vars

C27_Witness ==
    /\ pc = "record" /\ run.batch_size <= 0
    /\ run.scrape_error = "value_error"
    /\ run.queue # <<>>
    /\ writer.buffer = <<>> /\ writer.stats = BatchWriterStats
    /\ StoredByWriter = {}

\* C28: process_new_jobs with batch_size = 0 does not fail: every card is
\* handed to a writer, every card that transforms and can be written is
\* stored when phase 3 ends, and no error is counted for such a run.
C28_ZeroBatchSizeWritesEach ==
    (run.batch_size = 0 /\ run.mode = "incremental"
        /\ pc \in {"update", "record"} /\ run.job_cards # <<>>)
        => /\ run.scrape_error = "none"
           /\ run.queue = <<>>
           /\ (writer.stats.errors = 0 /\ ~run.failed)
                 => CardIds(run.job_cards) \subseteq StoredByWriter


\* Jobs the lifecycle update of the current invocation turned from OPEN to
\* CLOSED
ClosedByUpdate ==
    {id \in DOMAIN jobs \cap DOMAIN run.pre_update :
        run.pre_update[id].status = "OPEN" /\ jobs[id].status = "CLOSED"}

\* No job turns from OPEN to CLOSED in this step
NoneCloses ==
    \A id \in DOMAIN jobs :
        jobs[id].status = "OPEN" => (id \in DOMAIN jobs' /\ jobs'[id].status = "OPEN")

\* C29: the closed_jobs of an incremental run, in its result and in its
\* ScrapeRun row, is the number of jobs whose status the run changed from
\* OPEN to CLOSED: the jobs its lifecycle update closed, no other step
\* closing any; a job that was CLOSED before is not counted.
C29_ClosedJobsCountsClosures ==
    /\ [][pc # "update" => NoneCloses]_vars
    /\ []((pc \in {"record", "done"} /\ run.mode = "incremental")
            => /\ run.closed_jobs = Cardinality(ClosedByUpdate)
               /\ \A i \in RunRows(run.run_id) :
                     scrape_runs[i].closed_jobs = Cardinality(ClosedByUpdate))

C29_Witness ==
    /\ pc = "done" /\ run.mode = "incremental" /\ run.outcome = "returned"
    /\ run.closed_jobs = 1
    /\ Cardinality(ClosedByUpdate) = 1
    /\ \E id \in DOMAIN run.pre_update :
          /\ run.pre_update[id].status = "CLOSED"
          /\ run.pre_update[id].company = run.company
          /\ jobs[id].status = "CLOSED"


\* C30: a failed write is confined to itself: the connection is not left in
\* a failed transaction, so after a bulk write that raised on a healthy
\* connection the fallback writes every record that can be written, and an
\* incremental invocation whose writer counted errors still writes its
\* ScrapeRun row.
C30_WriteFailureConfined ==
    /\ ~run.failed
    /\ (AfterFlush /\ writer.last_flush.bulk_raised
          /\ ~writer.last_flush.failed_before)
          => \A i \in 1..Len(writer.last_flush.buf) :
                writer.last_flush.buf[i].fault = "none"
                    => writer.last_flush.buf[i].id \in writer.last_flush.written
    /\ (pc = "done" /\ run.mode = "incremental" /\ writer.stats.errors >= 1)
          => Cardinality(RunRows(run.run_id)) = 1


\* ---------------------------------------------------------------- C31
\* The outcomes the cards of a queue can have, one per card
Outcomes == {"transform_error"} \cup Faults

\* Job records and result counters of an invocation that stands after its
\* diff, as lines 227-239 of run_incremental_scrape compute them: phase 3,
\* then phase 4; an exception of either phase ends the try block.
EnrichedFirst(outcomes, stream_raises) ==
    LET p == process_new_jobs(jobs, run.failed, run.queue, run.company,
                              run.detail_scrape, run.batch_size, clock, outcomes,
                              stream_raises)
        u == update_existing_jobs(p.tbl, p.failed, run.still_active_ids,
                                  run.missing_ids, UpdateSlot(run.run_id),
                                  MISSED_RUN_THRESHOLD)
    IN IF p.raised
       THEN [tbl |-> p.tbl, details_fetched |-> 0, new_jobs |-> 0,
             closed_jobs |-> 0, error_count |-> run.error_count + 1]
       ELSE [tbl |-> u.tbl, details_fetched |-> p.details_fetched,
             new_jobs |-> Cardinality(run.new_ids),
             closed_jobs |-> IF u.raised THEN 0 ELSE u.closed,
             error_count |-> IF u.raised THEN run.error_count + 1
                             ELSE run.error_count]

\* The same with the two phases exchanged: phase 4, then phase 3
UpdatedFirst(outcomes, stream_raises) ==
    LET u == update_existing_jobs(jobs, run.failed, run.still_active_ids,
                                  run.missing_ids, UpdateSlot(run.run_id),
                                  MISSED_RUN_THRESHOLD)
        p == process_new_jobs(u.tbl, run.failed, run.queue, run.company,
                              run.detail_scrape, run.batch_size, clock, outcomes,
                              stream_raises)
    IN IF u.raised
       THEN [tbl |-> u.tbl, details_fetched |-> 0, new_jobs |-> 0,
             closed_jobs |-> 0, error_count |-> run.error_count + 1]
       ELSE [tbl |-> p.tbl, closed_jobs |-> u.closed,
             details_fetched |-> IF p.raised THEN 0 ELSE p.details_fetched,
             new_jobs |-> IF p.raised THEN 0 ELSE Cardinality(run.new_ids),
             error_count |-> IF p.raised THEN run.error_count + 1
                             ELSE run.error_count]

AfterDiff == pc = "enrich_begin" /\ run.mode = "incremental"

\* C31: whatever happens to the new cards, an invocation that has made its
\* diff ends with the same job records and the same result counters whether
\* phase 3 or phase 4 is executed first.
C31_PhaseOrderIrrelevant ==
    AfterDiff =>
        \A outcomes \in [1..Len(run.queue) -> Outcomes], stream_raises \in BOOLEAN :
            EnrichedFirst(outcomes, stream_raises)
                = UpdatedFirst(outcomes, stream_raises)


\* ---------------------------------------------------------------- C32
\* update_existing_jobs of the current incremental invocation was called
UpdateCalled ==
    /\ pc \in {"record", "done"} /\ run.mode = "incremental"
    /\ (run.updated \/ run.scrape_error = "update")

BelowThreshold(id) ==
    run.pre_update[id].consecutive_misses + 1 < MISSED_RUN_THRESHOLD

SameButCounters(old, new) ==
    new = [old EXCEPT !.last_seen_at = new.last_seen_at,
                      !.consecutive_misses = new.consecutive_misses]

FailedEarly ==
    /\ pc \in {"record", "done"} /\ run.mode = "incremental"
    /\ run.scrape_error \in {"snapshot", "diff"}

\* The only thing the step adds to the store is the ScrapeRun row of the run
OnlyRunRowAdded ==
    /\ jobs' = jobs
    /\ \/ scrape_runs' = scrape_runs
       \/ /\ Len(scrape_runs') = Len(scrape_runs) + 1
          /\ SubSeq(scrape_runs', 1, Len(scrape_runs)) = scrape_runs
          /\ scrape_runs'[Len(scrape_runs')].run_id = run.run_id
    /\ (~run.failed) => Len(scrape_runs') = Len(scrape_runs) + 1

\* C33: an invocation of run_incremental_scrape whose snapshot or diff phase
\* raises modifies no job record.  No step of the invocation up to the end of
\* its diff changes job_listings; after the exception neither the writer nor
\* update_existing_jobs has been used (nothing inserted, no counter
\* incremented, no job closed, no last_seen_at updated, all result counters
\* but jobs_seen 0); and the record step changes nothing but scrape_runs,
\* to which it adds the row of the run.
C33_EarlyFailureModifiesNoJob ==
    /\ [](FailedEarly =>
            /\ ~run.updated
            /\ writer.stats = BatchWriterStats /\ ~writer.last_flush.called
            /\ run.new_jobs = 0 /\ run.closed_jobs = 0 /\ run.details_fetched = 0)
    /\ [][(pc \in {"idle", "done", "snapshot", "diff"} => jobs' = jobs)
          /\ ((pc = "record" /\ FailedEarly) => OnlyRunRowAdded)]_vars

C33_Witness ==
    /\ pc = "done" /\ FailedEarly /\ run.scrape_error = "diff"
    /\ get_active_job_ids(jobs, run.company) \ CardIds(run.job_cards) # {}
    /\ CardIds(run.job_cards) \ DOMAIN jobs # {}
    /\ RunRows(run.run_id) # {}


\* ==================================================== detail-fetch generators
\* AppleJobsScraper._fetch_job_details, MicrosoftJobsScraper and
\* BaseScraper.scrape_job_details_streaming.  A card is its id, 0 for a card
\* the generator yields untouched because it has no id (no job_url in the
\* base class).  attempts lists the positions fetch_job_details (base:
\* extract_job_details) was called for, failures those where it raised.
Generators == {"apple", "microsoft", "base"}

StreamCards == UNION {[1..n -> 0..MaxStreamId] : n \in 0..MaxStreamCards}

\* The generator is started: context.new_page(), then _establish_session,
\* which the Microsoft generator calls inside its try block, the Apple
\* generator before it, and the base generator not at all.
StreamStart ==
    /\ stream.state = "idle"
    /\ \E g \in Generators, cards \in StreamCards, session_raises \in BOOLEAN :
          stream' = [stream EXCEPT
                       !.scraper = g,
                       !.job_cards = cards,
                       !.pages_opened = @ + 1,
                       !.pages_closed =
                           IF session_raises /\ g = "microsoft" THEN @ + 1 ELSE @,
                       !.state = IF session_raises /\ g # "base"
                                 THEN "raised" ELSE "running"]
    /\ UNCHANGED <<db_vars, pager, google>>

StreamNextStopsOnFailure ==
    /\ stream.state = "running"
    /\ stream.i <= Len(stream.job_cards)
    /\ LET id == stream.job_cards[stream.i]
       IN \E fetch_raised \in BOOLEAN :
             stream' =
                 IF id # 0 /\ fetch_raised
                 THEN [stream EXCEPT !.attempts = Append(@, stream.i),
                                     !.failures = @ \cup {stream.i},
                                     !.pages_closed = @ + 1,
                                     !.state = "raised"]
                 ELSE [stream EXCEPT
                         !.i = @ + 1,
                         !.attempts = IF id = 0 THEN @ ELSE Append(@, stream.i),
                         !.yielded = Append(@, scrape_job_details_streaming(
                                                   stream.scraper, id, FALSE))]
    /\ UNCHANGED <<db_vars, pager, google>>

\* One iteration of the for loop: the card is yielded as it is when it has no
\* id, else with the fetched details merged in, or, when the fetch raised, as
\* the except clause yields it.
StreamNext ==
    /\ stream.state = "running"
    /\ stream.i <= Len(stream.job_cards)
    /\ LET id == stream.job_cards[stream.i]
       IN \E fetch_raised \in BOOLEAN :
             stream' = [stream EXCEPT
                          !.i = @ + 1,
                          !.attempts = IF id = 0 THEN @ ELSE Append(@, stream.i),
                          !.failures = IF id # 0 /\ fetch_raised
                                       THEN @ \cup {stream.i} ELSE @,
                          !.yielded = Append(@, scrape_job_details_streaming(
                                                    stream.scraper, id,
                                                    id # 0 /\ fetch_raised))]
    /\ UNCHANGED <<db_vars, pager, google>>

\* The loop is exhausted: the finally clause closes the page
StreamEnd ==
    /\ stream.state = "running"
    /\ stream.i > Len(stream.job_cards)
    /\ stream' = [stream EXCEPT !.pages_closed = @ + 1, !.state = "returned"]
    /\ UNCHANGED <<db_vars, pager, google>>

\* The consumer closes the generator while it is suspended at a yield:
\* GeneratorExit is raised there and the finally clause closes the page
StreamAclose ==
    /\ stream.state = "running"
    /\ stream.i > 1
    /\ stream' = [stream EXCEPT !.pages_closed = @ + 1, !.state = "closed"]
    /\ UNCHANGED <<db_vars, pager, google>>

\* The store and the database-mode invocation are not involved
StoreIdle ==
    /\ jobs = EmptyTable
    /\ scrape_runs = <<>>
    /\ clock = 1
    /\ nruns = 0
    /\ pc = "idle"
    /\ run = IdleRun
    /\ writer = NewWriter(BatchSize, TRUE)
    /\ prev = NoPrev
    /\ absent_runs = StoredMisses(EmptyTable)

InitStream == StoreIdle /\ ScrapersIdle

NextStream ==
    \/ StreamStart
    \/ StreamNext
    \/ StreamEnd
    \/ StreamAclose

SpecStream == InitStream /\ [][NextStream]_vars

\* ---------------------------------------------------------------- C34
\* C34: the detail stream yields exactly one record per input job card, in
\* input order, each carrying the id of its card (at any moment the records
\* yielded are those of the cards before position i, and the generator
\* returns only after the last card); a fetch that raises for one card
\* leaves the generator running, and fetch_job_details is called for every
\* card that has an id, whatever happened to the cards before it.
C34_StreamYieldsEveryCard ==
    /\ [](stream.state \in {"running", "returned", "closed"} =>
            /\ Len(stream.yielded) = stream.i - 1
            /\ \A k \in 1..Len(stream.yielded) :
                  stream.yielded[k].id = stream.job_cards[k]
            /\ stream.attempts =
                  SelectSeq([k \in 1..(stream.i - 1) |-> k],
                            LAMBDA k : stream.job_cards[k] # 0)
            /\ stream.state = "returned" =>
                  Len(stream.yielded) = Len(stream.job_cards))
    /\ [][(stream.state = "running" /\ stream'.failures # stream.failures) =>
              /\ stream'.state = "running"
              /\ Len(stream'.yielded) = Len(stream.yielded) + 1]_vars

C34_Witness ==
    /\ stream.state = "returned"
    /\ Len(stream.job_cards) = 3
    /\ stream.failures = {1}
    /\ stream.attempts = <<1, 2, 3>>
    /\ stream.job_cards[1] # stream.job_cards[2]


\* ---------------------------------------------------------------- C38
\* C38: whenever a detail-fetch generator has ended (its loop ran to
\* completion, with or without failed fetches, the consumer closed it, or
\* establishing the session failed), the page it opened has been closed
\* exactly once.
C38_PageClosedOnce ==
    stream.state \in {"returned", "raised", "closed"} =>
        stream.pages_opened = 1 /\ stream.pages_closed = 1


\* ================================================================ scrape_query
\* MicrosoftJobsScraper.scrape_query and AppleJobsScraper.scrape_query.  The
\* site has one card on each page, whose id is the page number; log[p] is
\* what happened to page p: the fetch raised ("raise"), the page was empty,
\* or its card passed filter_job or not ("kept", "dropped") and the site has
\* a next page or not ("more", "last").  max_jobs = 0 stands for None.
PageOutcomes ==
    {"raise", "empty", "kept_more", "kept_last", "dropped_more", "dropped_last"}

\* all_jobs[:n]
Truncated(s, n) == IF Len(s) > n THEN SubSeq(s, 1, n) ELSE s

\* The call leaves its try block: the finally clause closes the page
QueryReturns(p, stop, result) ==
    [p EXCEPT !.pages_closed = @ + 1, !.state = "returned", !.stop = stop,
              !.result = result]

QueryRaises(p) ==
    [p EXCEPT !.pages_closed = @ + 1, !.state = "raised", !.stop = "exception"]

\* page_num += 1 and the test of the while loop
NextPage(p) ==
    IF p.page_num + 1 <= MaxPages
    THEN [p EXCEPT !.page_num = @ + 1]
    ELSE QueryReturns([p EXCEPT !.page_num = @ + 1], "max_pages", p.all_jobs)

\* The part of an iteration after the page's cards were obtained; Apple
\* truncates all_jobs and breaks where Microsoft returns the truncated list.
PageFetched(p, outcome) ==
    IF outcome = "empty" THEN QueryReturns(p, "empty", p.all_jobs)
    ELSE LET kept == outcome \in {"kept_more", "kept_last"}
             q == [p EXCEPT !.all_jobs = IF kept THEN Append(@, p.page_num) ELSE @]
         IN IF q.max_jobs # 0 /\ Len(q.all_jobs) >= q.max_jobs
            THEN QueryReturns([q EXCEPT !.all_jobs =
                                   IF q.scraper = "apple"
                                   THEN Truncated(@, q.max_jobs) ELSE @],
                              "max_jobs", Truncated(q.all_jobs, q.max_jobs))
            ELSE IF outcome \in {"kept_last", "dropped_last"}
                 THEN QueryReturns(q, "no_more", q.all_jobs)
                 ELSE NextPage(q)

MicrosoftPageRetriesForever(p, outcome) ==
    LET q == [p EXCEPT !.log = Append(@, outcome)]
    IN IF outcome = "raise"
       THEN NextPage([q EXCEPT !.consecutive_errors = @ + 1])
       ELSE PageFetched([q EXCEPT !.consecutive_errors = 0], outcome)

\* One iteration of the while loop of MicrosoftJobsScraper.scrape_query
MicrosoftPage(p, outcome) ==
    LET q == [p EXCEPT !.log = Append(@, outcome)]
    IN IF outcome = "raise"
       THEN LET e == [q EXCEPT !.consecutive_errors = @ + 1]
            IN IF e.consecutive_errors >= 3
               THEN QueryReturns(e, "errors", e.all_jobs)
               ELSE NextPage(e)
       ELSE PageFetched([q EXCEPT !.consecutive_errors = 0], outcome)

\* One iteration of the while loop of AppleJobsScraper.scrape_query, which
\* has no except clause: an exception of navigate_to_page, extract_job_cards
\* or check_has_next_page leaves the call through the finally clause.
ApplePage(p, outcome) ==
    LET q == [p EXCEPT !.log = Append(@, outcome)]
    IN IF outcome = "raise" THEN QueryRaises(q) ELSE PageFetched(q, outcome)

\* The call up to its loop: context.new_page() and, in the Microsoft scraper,
\* _establish_session inside the try block
QueryStart ==
    /\ pager.state = "idle"
    /\ \E s \in Companies, m \in {0, MaxJobsArg}, session_raises \in BOOLEAN :
          LET p == [pager EXCEPT !.scraper = s, !.max_jobs = m,
                                 !.pages_opened = @ + 1, !.state = "running"]
          IN pager' = IF s = "microsoft" /\ session_raises THEN QueryRaises(p)
                      ELSE p
    /\ UNCHANGED <<db_vars, stream, google>>

QueryPage ==
    /\ pager.state = "running"
    /\ \E outcome \in PageOutcomes :
          pager' = IF pager.scraper = "microsoft"
                   THEN MicrosoftPage(pager, outcome)
                   ELSE ApplePage(pager, outcome)
    /\ UNCHANGED <<db_vars, stream, google>>

InitQuery == StoreIdle /\ ScrapersIdle

NextQuery == QueryStart \/ QueryPage

SpecQuery == InitQuery /\ [][NextQuery]_vars

\* ---------------------------------------------------------------- C35
\* Number of failed fetches at the end of the log
RECURSIVE TrailingErrors(_)
TrailingErrors(log) ==
    IF log = <<>> \/ log[Len(log)] # "raise" THEN 0
    ELSE 1 + TrailingErrors(SubSeq(log, 1, Len(log) - 1))

\* The pages whose card was collected
KeptPages(log) ==
    SelectSeq([k \in 1..Len(log) |-> k],
              LAMBDA k : log[k] \in {"kept_more", "kept_last"})

QueryOf(s) == pager.state # "idle" /\ pager.scraper = s /\ pager.stop # "exception"

\* C35: in MicrosoftJobsScraper.scrape_query a page whose fetch raises is
\* skipped and the next page is fetched (the k-th fetch is for page k, and
\* the jobs collected are those of the pages fetched without error); the
\* consecutive-error counter is the number of failed fetches since the last
\* successful one; the call goes on while fewer than 3 fetches in a row have
\* failed and stops at the third, returning the jobs collected so far.
C35_MicrosoftStopsAtThreeErrors ==
    QueryOf("microsoft") =>
        /\ pager.max_jobs = 0 => pager.all_jobs = KeptPages(pager.log)
        /\ pager.state = "running" =>
              /\ pager.page_num = Len(pager.log) + 1
              /\ pager.consecutive_errors = TrailingErrors(pager.log)
              /\ TrailingErrors(pager.log) < 3
        /\ pager.state = "returned" =>
              /\ pager.stop = "errors" <=> TrailingErrors(pager.log) = 3
              /\ pager.stop = "errors" => pager.result = pager.all_jobs

C35_Witness ==
    /\ QueryOf("microsoft") /\ pager.state = "returned" /\ pager.stop = "errors"
    /\ pager.log = <<"raise", "raise", "kept_more", "raise", "raise", "raise">>
    /\ pager.result = <<3>>


\* ---------------------------------------------------------------- C36
\* C36: AppleJobsScraper.scrape_query never ends with an exception of a page
\* navigation: after a failed navigation it goes on to the next page and
\* collects the jobs of the pages that load, and when 3 navigations in a row
\* have failed it stops and returns the jobs collected so far, the empty
\* list when every navigation failed.
C36_AppleRecoversFromNavigationErrors ==
    (pager.state # "idle" /\ pager.scraper = "apple") =>
        /\ pager.state # "raised"
        /\ pager.state = "running" => TrailingErrors(pager.log) < 3
        /\ (pager.state = "returned" /\ TrailingErrors(pager.log) = 3) =>
              pager.result = pager.all_jobs
        /\ pager.max_jobs = 0 => pager.all_jobs = KeptPages(pager.log)


\* ===================================================== Google JSON-mode scraper
\* run_scraper of google_jobs_scraper/main.py with the queries 1..MaxQueries,
\* no --max-jobs and a site that answers a query with any of its jobs (in
\* ascending order of id).  A job is its id (its job_url).
GoogleQueries == 1..MaxQueries

GoogleJobIds == 1..MaxGoogleId

Contains(s, x) == \E k \in 1..Len(s) : s[k] = x

\* GoogleJobsScraper.deduplicate_jobs: the first occurrence of every job
RECURSIVE deduplicate_jobs(_)
deduplicate_jobs(s) ==
    IF s = <<>> THEN <<>>
    ELSE LET front == deduplicate_jobs(SubSeq(s, 1, Len(s) - 1))
             last == s[Len(s)]
         IN IF Contains(front, last) THEN front ELSE Append(front, last)

\* run_scraper up to its try block: load_checkpoint() when --resume is given
\* and the file exists, else a new CheckpointData; all_jobs_data = []
GoogleStart ==
    /\ google.state \in {"idle", "failed", "finished"}
    /\ google.runs < MaxGoogleRuns
    /\ \E resume \in BOOLEAN :
          LET found == resume /\ google.file.exists
              checkpoint == IF found THEN google.file.data ELSE NewCheckpoint
          IN google' = [google EXCEPT
                          !.state = "running", !.runs = @ + 1,
                          !.resume = resume, !.resumed = found,
                          !.query = 1, !.checkpoint = checkpoint,
                          !.loaded = checkpoint, !.all_jobs_data = <<>>,
                          !.scraped = {},
                          !.output = [written |-> FALSE, jobs |-> <<>>]]
    /\ UNCHANGED <<db_vars, stream, pager>>

\* One iteration of the loop over the queries: a query the checkpoint lists
\* as completed is skipped; else scrape_query (and the detail batch) returns
\* the query's jobs, the query is appended to checkpoint.completed_queries
\* and the checkpoint is saved when len(all_jobs_data) is a multiple of
\* CHECKPOINT_INTERVAL.
GoogleQuery ==
    /\ google.state = "running"
    /\ google.query <= MaxQueries
    /\ IF Contains(google.checkpoint.completed_queries, google.query)
       THEN google' = [google EXCEPT !.query = @ + 1]
       ELSE \E S \in SUBSET GoogleJobIds :
               LET all_jobs_data == google.all_jobs_data \o SortedSeq(S)
                   checkpoint ==
                       [google.checkpoint EXCEPT
                          !.completed_queries = Append(@, google.query)]
               IN google' = [google EXCEPT
                               !.query = @ + 1,
                               !.scraped = @ \cup {google.query},
                               !.all_jobs_data = all_jobs_data,
                               !.checkpoint = checkpoint,
                               !.file =
                                   IF Len(all_jobs_data) % CHECKPOINT_INTERVAL = 0
                                   THEN [exists |-> TRUE, data |-> checkpoint]
                                   ELSE @]
    /\ UNCHANGED <<db_vars, stream, pager>>

\* scrape_query or the detail batch raises for a query that is not skipped,
\* or the user interrupts: both except clauses set checkpoint.jobs to the
\* deduplicated all_jobs_data and save the checkpoint; the run ends.
GoogleQueryRaises ==
    /\ google.state = "running"
    /\ google.query <= MaxQueries
    /\ ~Contains(google.checkpoint.completed_queries, google.query)
    /\ LET checkpoint ==
               [google.checkpoint EXCEPT
                  !.jobs = deduplicate_jobs(google.all_jobs_data)]
       IN google' = [google EXCEPT
                       !.state = "failed",
                       !.scraped = @ \cup {google.query},
                       !.checkpoint = checkpoint,
                       !.file = [exists |-> TRUE, data |-> checkpoint]]
    /\ UNCHANGED <<db_vars, stream, pager>>

\* After the loop: the deduplicated jobs are written to the output file and
\* the checkpoint file is deleted
GoogleFinish ==
    /\ google.state = "running"
    /\ google.query > MaxQueries
    /\ google' = [google EXCEPT
                    !.state = "finished",
                    !.output = [written |-> TRUE,
                                jobs |-> deduplicate_jobs(google.all_jobs_data)],
                    !.file = [exists |-> FALSE, data |-> NewCheckpoint]]
    /\ UNCHANGED <<db_vars, stream, pager>>

InitGoogle == StoreIdle /\ ScrapersIdle

NextGoogle ==
    \/ GoogleStart
    \/ GoogleQuery
    \/ GoogleQueryRaises
    \/ GoogleFinish

SpecGoogle == InitGoogle /\ [][NextGoogle]_vars

\* ---------------------------------------------------------------- C37
\* C37: when a run of the JSON-mode scraper that was started with --resume
\* from a saved checkpoint has completed, scrape_query was called for none of
\* the queries that checkpoint lists as completed, and the output contains
\* every job that checkpoint held.
C37_ResumeKeepsCheckpointJobs ==
    (google.state = "finished" /\ google.resumed) =>
        /\ \A q \in google.scraped : ~Contains(google.loaded.completed_queries, q)
        /\ \A k \in 1..Len(google.loaded.jobs) :
              Contains(google.output.jobs, google.loaded.jobs[k])


\* ---------------------------------------------------------------- C39
\* The buffer that the flush() call of a step finds is not empty
FlushOfRecords ==
    \/ AddJobStep /\ ~run'.transform_raised
    \/ writer.buffer # <<>>

StatsNotDecreased ==
    /\ writer'.stats.total_processed >= writer.stats.total_processed
    /\ writer'.stats.total_written >= writer.stats.total_written
    /\ writer'.stats.batches_written >= writer.stats.batches_written
    /\ writer'.stats.errors >= writer.stats.errors

\* C39: in every state of a BatchWriter total_written + len(buffer) <=
\* total_processed; no step of its invocation decreases a counter;
\* batches_written grows by 1 in a flush of a non-empty buffer whose bulk
\* write returned and in no other step; and a flush() that finds the buffer
\* empty returns 0 and leaves the writer, the store and the connection as
\* they are.
C39_WriterCountersConsistent ==
    /\ [](writer.stats.total_written + Len(writer.buffer)
              <= writer.stats.total_processed)
    /\ [][/\ pc \notin {"idle", "done"} => StatsNotDecreased
          /\ (FlushStep /\ FlushOfRecords) =>
                writer'.stats.batches_written = writer.stats.batches_written
                    + (IF writer'.last_flush.bulk_raised THEN 0 ELSE 1)
          /\ (pc \notin {"idle", "done"} /\ ~(FlushStep /\ FlushOfRecords)) =>
                writer'.stats.batches_written = writer.stats.batches_written
          /\ (FlushStep /\ ~FlushOfRecords) =>
                /\ flush(writer, jobs, run.failed).ret = 0
                /\ writer' = writer /\ jobs' = jobs
                /\ run'.failed = run.failed]_vars

C39_Witness ==
    /\ pc = "record" /\ run.mode = "full"
    /\ writer.last_flush.called /\ writer.last_flush.bulk_raised
    /\ writer.buffer = <<>>
    /\ writer.stats.total_processed = 2 /\ writer.stats.total_written = 1
    /\ writer.stats.batches_written = 0

====
